---- MODULE Spec2Model ----
(***************************************************************************)
(* FGlue: the merge engine of src/fgluue.py (FileContext and               *)
(* FGlueApp.merge_files) as a state machine.                               *)
(*                                                                         *)
(* Text is modelled as TLA+ strings, character by character: the regular   *)
(* expressions of the source are written out as scanners over the          *)
(* characters of the text.  The alphabet of the model is printable ASCII   *)
(* plus "\n", "\t" and " "; "\n" is the only line boundary (the files are  *)
(* opened in text mode, which maps "\r\n" and "\r" to "\n").               *)
(***************************************************************************)
EXTENDS Integers, Sequences, FiniteSets, TLC

(***************************************************************************)
(* Characters and strings                                                  *)
(***************************************************************************)

\* s[i] of Python, 1-based here
Ch(s, i) == SubSeq(s, i, i)

\* s[i-1:] of Python
From(s, i) == SubSeq(s, i, Len(s))

\* s.startswith(p, i-1)
StartsWithAt(s, i, p) ==
    /\ i >= 1
    /\ i + Len(p) - 1 <= Len(s)
    /\ SubSeq(s, i, i + Len(p) - 1) = p

Digits == {"0", "1", "2", "3", "4", "5", "6", "7", "8", "9"}

UpperLetters ==
    {"A", "B", "C", "D", "E", "F", "G", "H", "I", "J", "K", "L", "M",
     "N", "O", "P", "Q", "R", "S", "T", "U", "V", "W", "X", "Y", "Z"}

LowerLetters ==
    {"a", "b", "c", "d", "e", "f", "g", "h", "i", "j", "k", "l", "m",
     "n", "o", "p", "q", "r", "s", "t", "u", "v", "w", "x", "y", "z"}

\* the class [a-zA-Z0-9_] of the directive-name regular expression
NameChars == UpperLetters \cup LowerLetters \cup Digits \cup {"_"}

\* what str.strip() and str.split() treat as white space
Whitespace == {" ", "\n", "\t"}

UpperOf ==
    [c \in LowerLetters |->
        CASE c = "a" -> "A" [] c = "b" -> "B" [] c = "c" -> "C" [] c = "d" -> "D"
          [] c = "e" -> "E" [] c = "f" -> "F" [] c = "g" -> "G" [] c = "h" -> "H"
          [] c = "i" -> "I" [] c = "j" -> "J" [] c = "k" -> "K" [] c = "l" -> "L"
          [] c = "m" -> "M" [] c = "n" -> "N" [] c = "o" -> "O" [] c = "p" -> "P"
          [] c = "q" -> "Q" [] c = "r" -> "R" [] c = "s" -> "S" [] c = "t" -> "T"
          [] c = "u" -> "U" [] c = "v" -> "V" [] c = "w" -> "W" [] c = "x" -> "X"
          [] c = "y" -> "Y" [] c = "z" -> "Z"]

LowerOf ==
    [c \in UpperLetters |-> CHOOSE d \in LowerLetters : UpperOf[d] = c]

UpperChar(c) == IF c \in LowerLetters THEN UpperOf[c] ELSE c

LowerChar(c) == IF c \in UpperLetters THEN LowerOf[c] ELSE c

RECURSIVE str_lower(_)
\* str.lower()
str_lower(s) ==
    IF s = "" THEN "" ELSE LowerChar(Head(s)) \o str_lower(Tail(s))

RECURSIVE str_upper(_)
\* str.upper()
str_upper(s) ==
    IF s = "" THEN "" ELSE UpperChar(Head(s)) \o str_upper(Tail(s))

\* the least and the greatest member of a non-empty set of numbers
Least(S) == CHOOSE k \in S : \A m \in S : k <= m

Greatest(S) == CHOOSE k \in S : \A m \in S : k >= m

\* the index of the first c in s at or after index j, 0 when there is none
FindChar(s, c, j) ==
    LET at == {k \in j..Len(s) : k >= 1 /\ Ch(s, k) = c}
    IN  IF at = {} THEN 0 ELSE Least(at)

\* the index of the last c in s at or before index j, 0 when there is none
FindLastChar(s, c, j) ==
    LET at == {k \in 1..j : k <= Len(s) /\ Ch(s, k) = c}
    IN  IF at = {} THEN 0 ELSE Greatest(at)

RECURSIVE str_lstrip(_)
str_lstrip(s) ==
    IF s # "" /\ Head(s) \in Whitespace THEN str_lstrip(Tail(s)) ELSE s

RECURSIVE str_rstrip(_)
str_rstrip(s) ==
    IF s # "" /\ Ch(s, Len(s)) \in Whitespace
    THEN str_rstrip(SubSeq(s, 1, Len(s) - 1))
    ELSE s

\* str.strip()
str_strip(s) == str_rstrip(str_lstrip(s))

RECURSIVE str_split_sep(_, _)
\* str.split(sep) for a one-character sep: empty fields are kept
str_split_sep(s, sep) ==
    LET k == FindChar(s, sep, 1)
    IN  IF k = 0 THEN <<s>>
        ELSE <<SubSeq(s, 1, k - 1)>> \o str_split_sep(From(s, k + 1), sep)

RECURSIVE str_splitlines(_)
\* str.splitlines(): the lines without their line breaks; a final line break
\* opens no further line
str_splitlines(s) ==
    LET k == FindChar(s, "\n", 1)
    IN  IF s = "" THEN <<>>
        ELSE IF k = 0 THEN <<s>>
        ELSE <<SubSeq(s, 1, k - 1)>> \o str_splitlines(From(s, k + 1))

RECURSIVE WordEnd(_, _)
\* the index of the last character of the white-space-free run starting at i
WordEnd(s, i) ==
    IF i + 1 <= Len(s) /\ Ch(s, i + 1) \notin Whitespace
    THEN WordEnd(s, i + 1)
    ELSE i

RECURSIVE str_split(_)
\* str.split(): the white-space-delimited words
str_split(s) ==
    LET t == str_lstrip(s)
        e == WordEnd(t, 1)
    IN  IF t = "" THEN <<>>
        ELSE <<SubSeq(t, 1, e)>> \o str_split(From(t, e + 1))

RECURSIVE str_join(_, _)
\* sep.join(parts)
str_join(sep, parts) ==
    IF parts = <<>> THEN ""
    ELSE IF Len(parts) = 1 THEN parts[1]
    ELSE parts[1] \o sep \o str_join(sep, Tail(parts))

RECURSIVE str_replace_from(_, _, _, _)
\* the occurrences of old are looked for from index i on, left to right, and
\* do not overlap
str_replace_from(s, i, old, new) ==
    LET at == {k \in i..Len(s) : StartsWithAt(s, k, old)}
        b  == Least(at)
    IN  IF at = {} THEN From(s, i)
        ELSE SubSeq(s, i, b - 1) \o new
             \o str_replace_from(s, b + Len(old), old, new)

\* str.replace(old, new) for a non-empty old
str_replace(s, old, new) == str_replace_from(s, 1, old, new)

\* str.isdigit() on the model's alphabet
str_isdigit(s) ==
    /\ s # ""
    /\ \A k \in 1..Len(s) : Ch(s, k) \in Digits

DigitValue ==
    [c \in Digits |->
        CASE c = "0" -> 0 [] c = "1" -> 1 [] c = "2" -> 2 [] c = "3" -> 3
          [] c = "4" -> 4 [] c = "5" -> 5 [] c = "6" -> 6 [] c = "7" -> 7
          [] c = "8" -> 8 [] c = "9" -> 9]

RECURSIVE DigitsValue(_)
\* the number a string of decimal digits denotes
DigitsValue(s) ==
    IF s = "" THEN 0
    ELSE 10 * DigitsValue(SubSeq(s, 1, Len(s) - 1)) + DigitValue[Ch(s, Len(s))]

\* int(s) of Python: white space around, an optional sign, decimal digits;
\* anything else raises ValueError
int_parses(s) ==
    LET t == str_strip(s)
        u == IF t # "" /\ Head(t) \in {"+", "-"} THEN Tail(t) ELSE t
    IN  str_isdigit(u)

int_value(s) ==
    LET t == str_strip(s)
    IN  IF t # "" /\ Head(t) = "-" THEN 0 - DigitsValue(Tail(t))
        ELSE IF t # "" /\ Head(t) = "+" THEN DigitsValue(Tail(t))
        ELSE DigitsValue(t)

RECURSIVE str_of_nat(_)
str_of_nat(n) ==
    LET d == CHOOSE c \in Digits : DigitValue[c] = n % 10
    IN  IF n < 10 THEN d ELSE str_of_nat(n \div 10) \o d

\* str(n) for an integer n
str_of_int(n) == IF n < 0 THEN "-" \o str_of_nat(0 - n) ELSE str_of_nat(n)

\* seq[a:b] of Python for 0 <= a and 0 <= b (a slice never raises)
Slice(seq, a, b) ==
    LET hi == IF b > Len(seq) THEN Len(seq) ELSE b
    IN  IF a >= hi THEN SubSeq(seq, 1, 0) ELSE SubSeq(seq, a + 1, hi)


\* seq[a:b] of Python for any integers a and b: a negative index counts from
\* the end, and both ends are clamped to the sequence
PySlice(seq, a, b) ==
    LET n  == Len(seq)
        a1 == IF a < 0 THEN (IF n + a < 0 THEN 0 ELSE n + a) ELSE a
        b1 == IF b < 0 THEN (IF n + b < 0 THEN 0 ELSE n + b) ELSE b
    IN  Slice(seq, a1, b1)

(***************************************************************************)
(* Paths (os.path on paths without a drive letter, "/" the separator)      *)
(***************************************************************************)

\* os.path.basename(path)
basename(path) == From(path, FindLastChar(path, "/", Len(path)) + 1)

\* os.path.dirname(path)
dirname(path) ==
    LET k    == FindLastChar(path, "/", Len(path))
        head == SubSeq(path, 1, k)
    IN  IF head # "" /\ \E j \in 1..Len(head) : Ch(head, j) # "/"
        THEN SubSeq(path, 1, FindLastChar(path, "/", Len(path)) - 1)
        ELSE head

RECURSIVE LeadingDots(_)
LeadingDots(s) == IF s # "" /\ Head(s) = "." THEN 1 + LeadingDots(Tail(s)) ELSE 0

\* os.path.splitext(path): <<root, ext>>; the extension starts at the last dot
\* of the base name, the leading dots of the base name not counted
splitext(path) ==
    LET sep  == FindLastChar(path, "/", Len(path))
        dot  == FindLastChar(path, ".", Len(path))
        lead == sep + LeadingDots(From(path, sep + 1))
    IN  IF dot > sep /\ dot > lead
        THEN <<SubSeq(path, 1, dot - 1), From(path, dot)>>
        ELSE <<path, "">>

RECURSIVE NormParts(_, _)
\* the components of a path with "" and "." dropped and ".." resolved
NormParts(parts, acc) ==
    IF parts = <<>> THEN acc
    ELSE IF Head(parts) \in {"", "."} THEN NormParts(Tail(parts), acc)
    ELSE IF Head(parts) = ".." /\ acc # <<>> /\ acc[Len(acc)] # ".."
         THEN NormParts(Tail(parts), SubSeq(acc, 1, Len(acc) - 1))
    ELSE NormParts(Tail(parts), Append(acc, Head(parts)))

\* os.path.normpath(path) for an absolute path, and "." for the empty path
normpath(path) ==
    IF path = "" THEN "."
    ELSE IF Head(path) = "/"
         THEN "/" \o str_join("/", NormParts(str_split_sep(path, "/"), <<>>))
    ELSE LET rel == str_join("/", NormParts(str_split_sep(path, "/"), <<>>))
         IN  IF rel = "" THEN "." ELSE rel

(***************************************************************************)
(* Directive tokens                                                        *)
(***************************************************************************)

NoMatch == [end |-> 0, group2 |-> ""]

\* the tail  (?:\:([^}]+))?}  of the directive regular expressions, tried at
\* index j: the index of the closing brace (0: no match) and group 2 ("" when
\* the group did not take part)
TailMatch(s, j) ==
    LET k == FindChar(s, "}", j + 1)
    IN  IF j <= Len(s) /\ Ch(s, j) = ":" /\ k > j + 1
        THEN [end |-> k, group2 |-> SubSeq(s, j + 1, k - 1)]
        ELSE IF j <= Len(s) /\ Ch(s, j) = "}"
        THEN [end |-> j, group2 |-> ""]
        ELSE NoMatch

\* match.group(2).split(";") if match.group(2) else []
ArgsOf(group2) == IF group2 = "" THEN <<>> ELSE str_split_sep(group2, ";")

\* the index of the last character of the longest run of name characters
\* starting at index i (i - 1 when there is none)
NameEnd(s, i) ==
    LET stop == {k \in i..Len(s) : Ch(s, k) \notin NameChars}
    IN  IF stop = {} THEN Len(s) ELSE Least(stop) - 1

RECURSIVE find_placeholders_from(_, _)
find_placeholders_from(template, i) ==
    LET b == FindChar(template, "{", i)
        e == NameEnd(template, b + 1)
        m == IF e > b THEN TailMatch(template, e + 1) ELSE NoMatch
    IN  IF b = 0 THEN <<>>
        ELSE IF m.end = 0 THEN find_placeholders_from(template, b + 1)
        ELSE <<[full    |-> SubSeq(template, b, m.end),
                pattern |-> SubSeq(template, b + 1, e),
                args    |-> ArgsOf(m.group2)]>>
             \o find_placeholders_from(template, m.end + 1)

\* FileContext.find_placeholders: every match of
\* {([a-zA-Z0-9_]+)(?:\:([^}]+))?}  in the template, left to right
find_placeholders(template) == find_placeholders_from(template, 1)

\* the match at index i with re.IGNORECASE, the flag of lines 816-825
PlaceholderAt_ignoring_case(s, i, pattern) ==
    IF StartsWithAt(str_lower(s), i, "{" \o pattern)
    THEN TailMatch(s, i + 1 + Len(pattern))
    ELSE NoMatch

\* the match of  {(pattern)(?:\:([^}]+))?}  at index i
PlaceholderAt(s, i, pattern) ==
    IF StartsWithAt(s, i, "{" \o pattern)
    THEN TailMatch(s, i + 1 + Len(pattern))
    ELSE NoMatch

\* the match of  {pattern(?:\:[^}]*)?}  at index i: the index of its closing
\* brace, 0 when there is none
LineTokenEnd(s, i, pattern) ==
    LET j == i + 1 + Len(pattern)
    IN  IF ~StartsWithAt(s, i, "{" \o pattern) \/ j > Len(s) THEN 0
        ELSE IF Ch(s, j) = "}" THEN j
        ELSE IF Ch(s, j) = ":" THEN FindChar(s, "}", j + 1)
        ELSE 0

\* the match of the literal token, letter case ignored (re.IGNORECASE)
MarkerEnd(s, i, token) ==
    IF i >= 1 /\ i + Len(token) - 1 <= Len(s)
       /\ str_lower(SubSeq(s, i, i + Len(token) - 1)) = token
    THEN i + Len(token) - 1
    ELSE 0

\* the closing index of the token of the given kind at index i
TokenEnd(s, i, pattern, marker) ==
    IF marker THEN MarkerEnd(s, i, pattern) ELSE LineTokenEnd(s, i, pattern)

\* the greatest index q in lo..hi at which a token starts, 0 when there is
\* none: the greedy leading  .*  of the line-deleting regular expressions
\* gives back characters until the token matches
LastTokenInLine(s, lo, hi, pattern, marker) ==
    LET at == {q \in lo..hi : Ch(s, q) = "{" /\ TokenEnd(s, q, pattern, marker) > 0}
    IN  IF at = {} THEN 0 ELSE Greatest(at)

RECURSIVE delete_lines_from(_, _, _, _)
\* re.sub(r".*TOKEN.*\n?", "", s) from index i on: a match starts at i when a
\* token starts in the rest of the line of i; it runs through the token, the
\* rest of the line in which the token closes, and that line's line break
delete_lines_from(s, i, pattern, marker) ==
    LET nl   == FindChar(s, "\n", i)
        eol  == IF nl = 0 THEN Len(s) ELSE nl - 1
        q    == LastTokenInLine(s, i, eol, pattern, marker)
        te   == TokenEnd(s, q, pattern, marker)
        nl2  == FindChar(s, "\n", te + 1)
        stop == IF nl2 = 0 THEN Len(s) ELSE nl2
    IN  IF i > Len(s) THEN ""
        ELSE IF q > 0 THEN delete_lines_from(s, stop + 1, pattern, marker)
        ELSE IF nl = 0 THEN From(s, i)
        ELSE SubSeq(s, i, nl) \o delete_lines_from(s, nl + 1, pattern, marker)

\* a replacement that takes the bare token {pattern} out and leaves the rest
\* of its line standing
delete_lines_token_only(s, pattern) == str_replace(s, "{" \o pattern \o "}", "")

\* the delete_line branch of _apply_placeholder: every line holding a
\* {pattern} or {pattern:args} token is removed with its line break
delete_lines(s, pattern) == delete_lines_from(s, 1, pattern, FALSE)

\* re.sub(r".*\{marker}.*\n?", "", s, flags=re.IGNORECASE)
delete_marker_lines(s, token) == delete_lines_from(s, 1, token, TRUE)

RECURSIVE remove_marker_from(_, _, _)
remove_marker_from(s, i, token) ==
    LET at == {k \in i..Len(s) : Ch(s, k) = "{" /\ MarkerEnd(s, k, token) > 0}
        b  == Least(at)
    IN  IF at = {} THEN From(s, i)
        ELSE SubSeq(s, i, b - 1) \o remove_marker_from(s, b + Len(token), token)

\* re.sub(r"{marker}", "", s, flags=re.IGNORECASE)
remove_marker(s, token) == remove_marker_from(s, 1, token)


(***************************************************************************)
(* The file system                                                         *)
(*                                                                         *)
(* A file on disk is a record: kind "text" (readable, decodes as UTF-8),   *)
(* "binary" (readable, does not decode) or "missing" (open and stat fail); *)
(* content is the decoded text, size the length in bytes, md5 and sha1     *)
(* the hex digests of the raw bytes, ctime, mtime and atime the stat       *)
(* times as calendar fields.                                               *)
(***************************************************************************)

Stamp(Y, m, d, H, M, S) == [Y |-> Y, m |-> m, d |-> d, H |-> H, M |-> M, S |-> S]

TextFile(content, tag) ==
    [kind |-> "text", content |-> content, size |-> Len(content),
     md5 |-> "0" \o tag \o "f5", sha1 |-> "1" \o tag \o "a9",
     ctime |-> Stamp("2024", "01", "0" \o tag, "10", "20", "30"),
     mtime |-> Stamp("2024", "02", "0" \o tag, "11", "21", "31"),
     atime |-> Stamp("2024", "03", "0" \o tag, "12", "22", "32")]

BinaryFile(size, tag) ==
    [TextFile("", tag) EXCEPT !.kind = "binary", !.size = size]

MissingFile == [TextFile("", "0") EXCEPT !.kind = "missing"]

\* open(path, "r", encoding="utf-8").read(): whether it raises, and the text
read_text(file) ==
    IF file.kind = "text" THEN [raised |-> FALSE, text |-> file.content]
    ELSE [raised |-> TRUE, text |-> ""]

(***************************************************************************)
(* FileContext                                                             *)
(***************************************************************************)

\* the class attributes of FileContext as declared (lines 20-32)
ClassInit ==
    [files_counter       |-> 0,
     current_files_count |-> 0,
     current_lines_count |-> 0,
     current_words_count |-> 0,
     current_chars_count |-> 0,
     total_files         |-> 0,
     total_lines         |-> 0,
     total_words         |-> 0,
     total_chars         |-> 0]

\* reset_counters with line 70 left out: the ordinal survives the reset
reset_counters_keeping_ordinal(cls) ==
    [cls EXCEPT !.current_files_count = 0,
                !.current_lines_count = 0,
                !.current_words_count = 0,
                !.current_chars_count = 0,
                !.total_files         = 0,
                !.total_lines         = 0,
                !.total_words         = 0,
                !.total_chars         = 0]

\* reset_counters with lines 73-75 left out: only the file counters and
\* the totals are zeroed
reset_counters_keeping_running(cls) ==
    [cls EXCEPT !.files_counter       = 0,
                !.current_files_count = 0,
                !.total_files         = 0,
                !.total_lines         = 0,
                !.total_words         = 0,
                !.total_chars         = 0]

\* FileContext.reset_counters: every class counter back to 0
reset_counters(cls) ==
    [cls EXCEPT !.files_counter       = 0,
                !.current_files_count = 0,
                !.current_lines_count = 0,
                !.current_words_count = 0,
                !.current_chars_count = 0,
                !.total_files         = 0,
                !.total_lines         = 0,
                !.total_words         = 0,
                !.total_chars         = 0]

\* the instance attributes FileContext.__init__ sets: a failed read gives the
\* empty content
NewContext(path, disk) ==
    LET r       == read_text(disk[path])
        content == IF r.raised THEN "" ELSE r.text
        lines   == str_splitlines(content)
    IN  [path        |-> path,
         content     |-> content,
         lines       |-> lines,
         lines_count |-> Len(lines),
         words_count |-> Len(str_split(content)),
         chars_count |-> Len(content)]

\* lines 56-61 run only for a file that gave a content
CountContext_skipping_empty(cls, self) ==
    IF self.content = "" THEN cls
    ELSE [cls EXCEPT !.files_counter       = @ + 1,
                     !.current_files_count = @ + 1,
                     !.current_lines_count = @ + self.lines_count,
                     !.current_words_count = @ + self.words_count,
                     !.current_chars_count = @ + self.chars_count]

\* lines 56-61 with "=" for "+=" in lines 59-61
CountContext_assigning(cls, self) ==
    [cls EXCEPT !.files_counter       = @ + 1,
                !.current_files_count = @ + 1,
                !.current_lines_count = self.lines_count,
                !.current_words_count = self.words_count,
                !.current_chars_count = self.chars_count]

\* the class counters after FileContext.__init__ has built self
CountContext(cls, self) ==
    [cls EXCEPT !.files_counter       = @ + 1,
                !.current_files_count = @ + 1,
                !.current_lines_count = @ + self.lines_count,
                !.current_words_count = @ + self.words_count,
                !.current_chars_count = @ + self.chars_count]

\* the two digits of n, 0 <= n < 100
TwoDigits(n) == str_of_nat(n \div 10) \o str_of_nat(n % 10)

\* f"{size / den:.2f}": the quotient rounded to hundredths, ties to even
Fixed2(size, den) ==
    LET h == (size * 100) \div den
        r == (size * 100) % den
        q == IF 2 * r > den \/ (2 * r = den /\ h % 2 = 1) THEN h + 1 ELSE h
    IN  str_of_nat(q \div 100) \o "." \o TwoDigits(q % 100)

\* FileContext._human_size; the units are written in Latin letters here
\* ("B" for the source's Cyrillic letter), and a size of 1024 TB or more
\* falls off the loop, which returns None
_human_size(size) ==
    IF size < 1024 THEN str_of_nat(size) \o " B"
    ELSE IF size < 1024 * 1024 THEN Fixed2(size, 1024) \o " KB"
    ELSE IF size < 1024 * 1024 * 1024 THEN Fixed2(size, 1024 * 1024) \o " MB"
    ELSE IF size < 1024 * 1024 * 1024 * 1024
         THEN Fixed2(size, 1024 * 1024 * 1024) \o " GB"
    ELSE IF size < 1024 * 1024 * 1024 * 1024 * 1024
         THEN Fixed2(size, 1024 * 1024 * 1024 * 1024) \o " TB"
    ELSE "None"

RECURSIVE strftime(_, _)
\* datetime.strftime(fmt) for the fields %Y %m %d %H %M %S and %%; every
\* other character is copied
strftime(fmt, t) ==
    LET c == IF Len(fmt) >= 2 THEN Ch(fmt, 2) ELSE ""
    IN  IF fmt = "" THEN ""
        ELSE IF Head(fmt) = "%" /\ c \in {"Y", "m", "d", "H", "M", "S", "%"}
        THEN (CASE c = "Y" -> t.Y [] c = "m" -> t.m [] c = "d" -> t.d
                [] c = "H" -> t.H [] c = "M" -> t.M [] c = "S" -> t.S
                [] c = "%" -> "%")
             \o strftime(From(fmt, 3), t)
        ELSE Head(fmt) \o strftime(Tail(fmt), t)

RECURSIVE title_from(_, _)
title_from(s, previous_cased) ==
    LET c      == Head(s)
        letter == c \in UpperLetters \cup LowerLetters
    IN  IF s = "" THEN ""
        ELSE (IF previous_cased THEN LowerChar(c) ELSE UpperChar(c))
             \o title_from(Tail(s), letter)

\* str.title(): a letter after a letter in lower case, any other letter in
\* upper case
str_title(s) == title_from(s, FALSE)

RECURSIVE SelectSeq2(_, _)
\* [line for line in lines if line.strip()]
SelectSeq2(lines, k) ==
    IF k > Len(lines) THEN <<>>
    ELSE (IF str_strip(lines[k]) # "" THEN <<lines[k]>> ELSE <<>>)
         \o SelectSeq2(lines, k + 1)

RECURSIVE numbered_from(_, _)
\* [f"{i + 1}: {line}" for i, line in enumerate(lines)]
numbered_from(lines, k) ==
    IF k > Len(lines) THEN <<>>
    ELSE <<str_of_nat(k) \o ": " \o lines[k]>> \o numbered_from(lines, k + 1)

Returned(text) == [raised |-> FALSE, text |-> text]

\* an exception leaves the lambda (TypeError for a wrong number of
\* arguments, OSError for a file that cannot be opened or stat'ed)
Raises == [raised |-> TRUE, text |-> ""]

\* n and n.isdigit()
IsIndex(n) == n # "" /\ str_isdigit(n)

DefaultTimeFormat == "%Y-%m-%d %H:%M:%S"

\* the lambda of a time directive: one optional argument, stat of the path
TimeValue(file, field, args) ==
    IF Len(args) > 1 \/ file.kind = "missing" THEN Raises
    ELSE Returned(strftime(IF args = <<>> THEN DefaultTimeFormat ELSE args[1],
                           field))

\* the value the lambda of format()'s directive `pattern` returns for the
\* arguments args, or that it raises; content is self.content at this
\* moment, env.self the FileContext, env.cls the class counters, env.disk
\* the file system
Value(pattern, env, content, args) ==
    LET self  == env.self
        cls   == env.cls
        file  == env.disk[self.path]
        lines == self.lines
        n     == IF Len(args) >= 1 THEN args[1] ELSE ""
        end   == IF Len(args) >= 2 THEN args[2] ELSE ""
    IN  CASE pattern = "name" -> Returned(splitext(basename(self.path))[1])
          [] pattern = "extension" ->
                Returned(LET e == splitext(basename(self.path))[2]
                         IN  From(e, LeadingDots(e) + 1))
          [] pattern = "filename" -> Returned(basename(self.path))
          [] pattern = "path" ->
                Returned(str_replace(normpath(self.path), "/", "\\"))
          [] pattern = "folder" ->
                Returned(str_replace(normpath(dirname(self.path)), "/", "\\"))
          [] pattern = "drive" -> Returned("")
          [] pattern = "size" ->
                IF file.kind = "missing" THEN Raises
                ELSE Returned(_human_size(file.size))
          [] pattern = "hash:md5" ->
                IF file.kind = "missing" THEN Raises ELSE Returned(file.md5)
          [] pattern = "hash:sha1" ->
                IF file.kind = "missing" THEN Raises ELSE Returned(file.sha1)
          [] pattern = "created" -> TimeValue(file, file.ctime, args)
          [] pattern = "modified" -> TimeValue(file, file.mtime, args)
          [] pattern = "accessed" -> TimeValue(file, file.atime, args)
          [] pattern = "_" -> Returned(" ")
          [] pattern = "nl" -> Returned("\n")
          [] pattern = "content:numbered" ->
                Returned(str_join("\n", numbered_from(lines, 1)))
          [] pattern = "content" -> Returned(content)
          [] pattern = "line" ->
                IF Len(args) # 1 THEN Raises
                ELSE IF IsIndex(n) /\ 0 < DigitsValue(n)
                        /\ DigitsValue(n) <= Len(lines)
                THEN Returned(lines[DigitsValue(n)])
                ELSE Returned("")
          [] pattern = "lines" ->
                IF IsIndex(n) /\ IsIndex(end)
                THEN Returned(str_join("\n",
                        PySlice(lines, DigitsValue(n) - 1, DigitsValue(end))))
                ELSE Returned("")
          [] pattern = "head" ->
                IF Len(args) # 1 THEN Raises
                ELSE IF IsIndex(n)
                THEN Returned(str_join("\n", PySlice(lines, 0, DigitsValue(n))))
                ELSE Returned("")
          [] pattern = "tail" ->
                IF Len(args) # 1 THEN Raises
                ELSE IF IsIndex(n)
                THEN Returned(str_join("\n",
                        PySlice(lines, 0 - DigitsValue(n), Len(lines))))
                ELSE Returned("")
          [] pattern = "char" ->
                IF Len(args) # 1 THEN Raises
                ELSE IF IsIndex(n) /\ 0 < DigitsValue(n)
                        /\ DigitsValue(n) <= Len(content)
                THEN Returned(Ch(content, DigitsValue(n)))
                ELSE Returned("")
          [] pattern = "chars" ->
                IF IsIndex(n) /\ IsIndex(end)
                THEN Returned(PySlice(content, DigitsValue(n) - 1,
                                      DigitsValue(end)))
                ELSE Returned("")
          [] pattern = "headchars" ->
                IF Len(args) # 1 THEN Raises
                ELSE IF IsIndex(n)
                THEN Returned(PySlice(content, 0, DigitsValue(n)))
                ELSE Returned("")
          [] pattern = "tailchars" ->
                IF Len(args) # 1 THEN Raises
                ELSE IF IsIndex(n)
                THEN Returned(PySlice(content, 0 - DigitsValue(n), Len(content)))
                ELSE Returned("")
          [] pattern = "lines_count" -> Returned(str_of_int(self.lines_count))
          [] pattern = "words_count" -> Returned(str_of_int(self.words_count))
          [] pattern = "chars_count" -> Returned(str_of_int(self.chars_count))
          [] pattern = "counter" -> Returned(str_of_int(cls.files_counter))
          [] pattern = "current_files_count" ->
                Returned(str_of_int(cls.current_files_count))
          [] pattern = "current_lines_count" ->
                Returned(str_of_int(cls.current_lines_count))
          [] pattern = "current_words_count" ->
                Returned(str_of_int(cls.current_words_count))
          [] pattern = "current_chars_count" ->
                Returned(str_of_int(cls.current_chars_count))
          [] pattern = "total_files_count" ->
                Returned(str_of_int(cls.total_files))
          [] pattern = "total_lines_count" ->
                Returned(str_of_int(cls.total_lines))
          [] pattern = "total_words_count" ->
                Returned(str_of_int(cls.total_words))
          [] pattern = "total_chars_count" ->
                Returned(str_of_int(cls.total_chars))

\* "\n".join(line for line in content.splitlines() if line.strip()), with a
\* line break after the last line as well
remove_blank_lines_terminated(content) ==
    LET kept == SelectSeq2(str_splitlines(content), 1)
    IN  IF kept = <<>> THEN "" ELSE str_join("\n", kept) \o "\n"

\* the lambda of remove_blank_lines:
\* "\n".join(line for line in ctx.content.splitlines() if line.strip())
remove_blank_lines(content) ==
    str_join("\n", SelectSeq2(str_splitlines(content), 1))

\* the content the lambda of a content modifier returns
Modified(pattern, content) ==
    CASE pattern = "upper" -> str_upper(content)
      [] pattern = "lower" -> str_lower(content)
      [] pattern = "title" -> str_title(content)
      [] pattern = "remove_linebreaks" -> str_replace(content, "\n", "")
      [] pattern = "remove_blank_lines" -> remove_blank_lines(content)
      [] pattern = "remove_whitespaces" -> str_join(" ", str_split(content))
      [] pattern = "remove_spaces" -> str_replace(content, " ", "")


(***************************************************************************)
(* FileContext.format                                                      *)
(***************************************************************************)

RECURSIVE apply_placeholder_from(_, _, _, _, _)
\* re.sub of  {(pattern)(?:\:([^}]+))?}  from index i on: the scan moves from
\* one opening brace to the next; a match is replaced by str(func(*args)) and
\* the scan goes on after it
apply_placeholder_from(template, i, pattern, env, content) ==
    LET b    == FindChar(template, "{", i)
        m    == PlaceholderAt(template, b, pattern)
        v    == Value(pattern, env, content, ArgsOf(m.group2))
        rest == apply_placeholder_from(template, m.end + 1, pattern, env, content)
        next == apply_placeholder_from(template, b + 1, pattern, env, content)
    IN  IF b = 0 THEN Returned(From(template, i))
        ELSE IF m.end = 0
        THEN [raised |-> next.raised,
              text   |-> SubSeq(template, i, b) \o next.text]
        ELSE IF v.raised THEN Raises
        ELSE [raised |-> rest.raised,
              text   |-> SubSeq(template, i, b - 1) \o v.text \o rest.text]

\* FileContext._apply_placeholder without delete_line: the new template, or
\* raised when a lambda raised
_apply_placeholder(template, pattern, env, content) ==
    apply_placeholder_from(template, 1, pattern, env, content)

RECURSIVE apply_content_modifier_from(_, _, _, _)
\* re.sub of  {(pattern)(?:\:([^}]+))?}  by "" from index i on: every
\* occurrence, left to right, replaces self.content by the modifier's
\* result; the lambdas take no argument, so an occurrence with arguments
\* raises TypeError
apply_content_modifier_from(template, i, pattern, content) ==
    LET b    == FindChar(template, "{", i)
        m    == PlaceholderAt(template, b, pattern)
        rest == apply_content_modifier_from(template, m.end + 1, pattern,
                                            Modified(pattern, content))
        next == apply_content_modifier_from(template, b + 1, pattern, content)
    IN  IF b = 0
        THEN [raised |-> FALSE, text |-> From(template, i), content |-> content]
        ELSE IF m.end = 0
        THEN [next EXCEPT !.text = SubSeq(template, i, b) \o @]
        ELSE IF ArgsOf(m.group2) # <<>>
        THEN [raised |-> TRUE, text |-> "", content |-> content]
        ELSE [rest EXCEPT !.text = SubSeq(template, i, b - 1) \o @]

\* FileContext._apply_content_modifier without delete_line
_apply_content_modifier(template, pattern, content) ==
    apply_content_modifier_from(template, 1, pattern, content)

\* lines 199-205 with the statements of upper and lower in the other order
ModifierPasses_lower_first ==
    << <<"lower", "modifier">>, <<"upper", "modifier">>, <<"title", "modifier">>,
       <<"remove_linebreaks", "modifier">>, <<"remove_blank_lines", "modifier">>,
       <<"remove_whitespaces", "modifier">>, <<"remove_spaces", "modifier">> >>

\* lines 199-205: the content modifiers in the order of the source
ModifierPasses ==
    << <<"upper", "modifier">>, <<"lower", "modifier">>, <<"title", "modifier">>,
       <<"remove_linebreaks", "modifier">>, <<"remove_blank_lines", "modifier">>,
       <<"remove_whitespaces", "modifier">>, <<"remove_spaces", "modifier">> >>

\* the passes of format() in the order of the source: the directive and
\* whether it substitutes a value, deletes its line or modifies the content
Passes ==
    << <<"name", "value">>, <<"extension", "value">>, <<"filename", "value">>,
       <<"path", "value">>, <<"folder", "value">>, <<"drive", "value">>,
       <<"size", "value">>, <<"hash:md5", "value">>, <<"hash:sha1", "value">>,
       <<"created", "value">>, <<"modified", "value">>, <<"accessed", "value">>,
       <<"_", "value">>, <<"nl", "value">>,
       <<"x", "delete_line">> >>
    \o ModifierPasses \o
    << <<"content:numbered", "value">>, <<"content", "value">>,
       <<"line", "value">>, <<"lines", "value">>, <<"head", "value">>,
       <<"tail", "value">>, <<"char", "value">>, <<"chars", "value">>,
       <<"headchars", "value">>, <<"tailchars", "value">>,
       <<"lines_count", "value">>, <<"words_count", "value">>,
       <<"chars_count", "value">>, <<"counter", "value">>,
       <<"current_files_count", "value">>, <<"current_lines_count", "value">>,
       <<"current_words_count", "value">>, <<"current_chars_count", "value">>,
       <<"total_files_count", "value">>, <<"total_lines_count", "value">>,
       <<"total_words_count", "value">>, <<"total_chars_count", "value">> >>

\* one statement  result = self._apply_...(result, pattern, ...)  of format();
\* st holds result and self.content
ApplyPass(pass, env, st) ==
    LET pattern == pass[1]
        v       == _apply_placeholder(st.text, pattern, env, st.content)
    IN  CASE pass[2] = "value" ->
                [raised |-> v.raised, text |-> v.text, content |-> st.content]
          [] pass[2] = "delete_line" ->
                [st EXCEPT !.text = delete_lines(st.text, pattern)]
          [] pass[2] = "modifier" ->
                _apply_content_modifier(st.text, pattern, st.content)

RECURSIVE RunPasses(_, _, _)
\* the statements of format() from the k-th on; an exception ends the call
RunPasses(k, env, st) ==
    IF k > Len(Passes) \/ st.raised THEN st
    ELSE RunPasses(k + 1, env, ApplyPass(Passes[k], env, st))

\* FileContext.format(template): the rendered text and the content self is
\* left with, or raised (no text is returned then).  No code sets the skip_file attribute, so the guard
\* of line 170 reads its default False.
format(env, template) ==
    LET st == RunPasses(1, env, [raised  |-> FALSE,
                                 text    |-> template,
                                 content |-> env.self.content])
    IN  IF st.raised THEN [st EXCEPT !.text = ""] ELSE st


(***************************************************************************)
(* FGlueApp.merge_files, statement by statement                            *)
(***************************************************************************)

\* the largest number of files ticked in the tree for one merge
MaxSelected == 3

\* the files of the folder in the order of the tree
Tree == <<"/d/a.txt", "/d/b.log", "/d/c.TXT", "/d/n">>

Paths == {Tree[k] : k \in 1..Len(Tree)}

\* the states of the disk the model moves between while no merge runs
Disks ==
    << [p \in Paths |->
            CASE p = "/d/a.txt" -> TextFile("Hello\n\nWorld\n", "1")
              [] p = "/d/b.log" -> TextFile("skip me\n", "2")
              [] p = "/d/c.TXT" -> TextFile("x  y\nZ", "3")
              [] p = "/d/n"     -> TextFile("", "4")],
       [p \in Paths |->
            CASE p = "/d/a.txt" -> TextFile("Hello\n\nWorld\n", "1")
              [] p = "/d/b.log" -> MissingFile
              [] p = "/d/c.TXT" -> BinaryFile(2048, "5")
              [] p = "/d/n"     -> TextFile("one\n", "6")] >>

\* self.templates: the template store, by display name
templates ==
    [name \in {"e2e", "running", "totals", "line", "marks", "frame", "skip", "allow", "both",
               "bare", "limit", "limits", "limit_text", "limit_neg"} |->
        CASE name = "e2e" ->
                "{allow_ext:txt}{x}\n{counter}. {filename}: {remove_blank_lines}{content}"
          [] name = "running" ->
                "{counter};{current_files_count},{current_lines_count},{current_words_count},{current_chars_count}|"
          [] name = "totals" ->
                "{total_files_count},{total_lines_count},{total_words_count},{total_chars_count}|{skip_empty}"
          [] name = "line" -> "{filename}={line:1}{hash:md5}\n"
          [] name = "marks" ->
                "{show_before}<B>\n{filename}\n{show_after}<A>\n"
          [] name = "frame" ->
                "{Show_Before}[{total_files_count}]\n{show_after}#{show_before}\n{name}\n{SHOW_AFTER}."
          [] name = "skip" -> "{skip_ext:log;.TXT}{filename}\n"
          [] name = "allow" -> "{allow_ext:txt}{allow_ext:.LOG; }{filename} "
          [] name = "both" -> "{skip_ext:txt}{allow_ext:txt;log}{name}.{extension}\n"
          [] name = "bare" -> "{skip_ext}{allow_ext: }{limit_files}{filename},"
          [] name = "limit" -> "{limit_files:1}{filename};"
          [] name = "limits" -> "{limit_files:2}{limit_files:1}{skip_ext:n}{filename};"
          [] name = "limit_text" -> "{limit_files:abc}{content}"
          [] name = "limit_neg" -> "{limit_files:-1}{filename};"]


RECURSIVE Ticked(_, _)
\* get_selected_files(): the ticked files, in the order of the tree
Ticked(ticks, k) ==
    IF k > Len(Tree) THEN <<>>
    ELSE (IF Tree[k] \in ticks THEN <<Tree[k]>> ELSE <<>>) \o Ticked(ticks, k + 1)

VARIABLES
    FileContext,        \* the class attributes of FileContext
    disk,               \* the files on disk
    pc,                 \* the statement merge_files is at; "idle" outside it
    selected_template,  \* self.selected_template.get() of this call
    selection,          \* what get_selected_files() returned to this call
    template,           \* the local template
    selected_files,     \* the local selected_files
    placeholders,       \* the local placeholders
    i,                  \* the loop index
    ctx,                \* the local ctx of this iteration
    formatted,          \* what ctx.format(temp_template) did at this iteration
    result,             \* the local result
    outputs,            \* what ctx.format returned, per file of this call
    shown,              \* the text this call handed to _show_preview
    warned,             \* this call reported the missing template
    raised,             \* this call ended by an exception
    carried             \* this call found counters left by an earlier merge

vars ==
    <<FileContext, disk, pc, selected_template, selection, template,
      selected_files, placeholders, i, ctx, formatted, result, outputs, shown,
      warned, raised, carried>>

NoContext == NewContext(Tree[4], [p \in Paths |-> MissingFile])

NotFormatted == [raised |-> FALSE, text |-> "", content |-> ""]

NotShown == [open |-> FALSE, text |-> ""]

Init ==
    /\ FileContext = ClassInit
    /\ disk = Disks[1]
    /\ pc = "idle"
    /\ selected_template = ""
    /\ selection = <<>>
    /\ template = ""
    /\ selected_files = <<>>
    /\ placeholders = <<>>
    /\ i = 0
    /\ ctx = NoContext
    /\ formatted = NotFormatted
    /\ result = ""
    /\ outputs = <<>>
    /\ shown = NotShown
    /\ warned = FALSE
    /\ raised = FALSE
    /\ carried = FALSE

\* the files change on disk; the model lets them change between merges only
TouchDisk ==
    /\ pc = "idle"
    /\ \E k \in 1..Len(Disks) : disk # Disks[k] /\ disk' = Disks[k]
    /\ UNCHANGED <<FileContext, pc, selected_template, selection, template,
                   selected_files, placeholders, i, ctx, formatted, result,
                   outputs, shown, warned, raised, carried>>

\* line 738 and the state of a call that has just been entered: no local is
\* bound yet, nothing has been shown
Entered ==
    /\ FileContext' = reset_counters(FileContext)
    /\ carried' = (FileContext.files_counter > 0)
    /\ selection' = <<>>
    /\ template' = ""
    /\ selected_files' = <<>>
    /\ placeholders' = <<>>
    /\ i' = 0
    /\ ctx' = NoContext
    /\ formatted' = NotFormatted
    /\ result' = ""
    /\ outputs' = <<>>
    /\ shown' = NotShown
    /\ raised' = FALSE

\* lines 738-743: the OK button with no template chosen
MergeNoTemplate ==
    /\ pc = "idle"
    /\ Entered
    /\ selected_template' = ""
    /\ warned' = TRUE
    /\ UNCHANGED <<disk, pc>>

\* lines 738-745: the OK button with a template chosen
MergeBegin ==
    /\ pc = "idle"
    /\ Entered
    /\ \E name \in DOMAIN templates : selected_template' = name
    /\ warned' = FALSE
    /\ pc' = "get_selected_files"
    /\ UNCHANGED disk

\* lines 745-746: the template is looked up and the ticked files are read
\* from the tree
GetSelectedFiles ==
    /\ pc = "get_selected_files"
    /\ template' = templates[selected_template]
    /\ \E ticks \in SUBSET Paths :
          /\ Cardinality(ticks) <= MaxSelected
          /\ selection' = Ticked(ticks, 1)
          /\ selected_files' = Ticked(ticks, 1)
    /\ pc' = "find_placeholders"
    /\ UNCHANGED <<FileContext, disk, selected_template, placeholders, i, ctx,
                   formatted, result, outputs, shown, warned, raised, carried>>

\* line 747
FindPlaceholders ==
    /\ pc = "find_placeholders"
    /\ placeholders' = find_placeholders(template)
    /\ pc' = "skip_ext"
    /\ UNCHANGED <<FileContext, disk, selected_template, selection, template,
                   selected_files, i, ctx, formatted, result, outputs, shown,
                   warned, raised, carried>>

RECURSIVE ExtArgs(_, _, _)
\* the loops of lines 751-755 and 764-768: the lower-cased arguments, not
\* blank, of the pattern's placeholders from the k-th on
ExtArgs(phs, pattern, k) ==
    LET args == phs[k].args
        kept == {a \in 1..Len(args) : str_strip(args[a]) # ""}
    IN  IF k > Len(phs) THEN {}
        ELSE (IF phs[k].pattern = pattern
              THEN {str_lower(args[a]) : a \in kept} ELSE {})
             \cup ExtArgs(phs, pattern, k + 1)

\* set(ext if ext.startswith(".") else "." + ext for ext in exts)
DottedSet(exts) == {IF StartsWithAt(e, 1, ".") THEN e ELSE "." \o e : e \in exts}

\* os.path.splitext(f)[1], the .lower() of lines 758 and 771 left out
LowerExt_as_written(f) == splitext(f)[2]

\* os.path.splitext(f)[1].lower()
LowerExt(f) == str_lower(splitext(f)[2])

RECURSIVE FilterFiles(_, _, _)
\* [f for f in files if (ext of f in exts) == keep]
FilterFiles(files, exts, keep) ==
    IF files = <<>> THEN <<>>
    ELSE (IF (LowerExt(Head(files)) \in exts) = keep THEN <<Head(files)>> ELSE <<>>)
         \o FilterFiles(Tail(files), exts, keep)

RECURSIVE StripPlaceholders(_, _, _, _)
\* the loops of lines 759-760 and 772-773: template.replace(ph["full"], "")
\* for the pattern's placeholders from the k-th on
StripPlaceholders(text, phs, pattern, k) ==
    IF k > Len(phs) THEN text
    ELSE StripPlaceholders(IF phs[k].pattern = pattern
                           THEN str_replace(text, phs[k].full, "") ELSE text,
                           phs, pattern, k + 1)

\* line 758
skip_filter(files, phs) ==
    LET skip_exts == ExtArgs(phs, "skip_ext", 1)
    IN  IF skip_exts = {} THEN files
        ELSE FilterFiles(files, DottedSet(skip_exts), FALSE)

\* line 771
allow_filter(files, phs) ==
    LET allow_exts == ExtArgs(phs, "allow_ext", 1)
    IN  IF allow_exts = {} THEN files
        ELSE FilterFiles(files, DottedSet(allow_exts), TRUE)

\* lines 756-760 and 769-773 on the template: the pattern's tokens are
\* removed only when the pattern listed an extension
strip_if_listed(text, phs, pattern) ==
    IF ExtArgs(phs, pattern, 1) = {} THEN text
    ELSE StripPlaceholders(text, phs, pattern, 1)

\* lines 751-760
SkipExt ==
    /\ pc = "skip_ext"
    /\ selected_files' = skip_filter(selected_files, placeholders)
    /\ template' = strip_if_listed(template, placeholders, "skip_ext")
    /\ pc' = "allow_ext"
    /\ UNCHANGED <<FileContext, disk, selected_template, selection,
                   placeholders, i, ctx, formatted, result, outputs, shown, warned,
                   raised, carried>>

\* lines 764-773
AllowExt ==
    /\ pc = "allow_ext"
    /\ selected_files' = allow_filter(selected_files, placeholders)
    /\ template' = strip_if_listed(template, placeholders, "allow_ext")
    /\ pc' = "limit_files"
    /\ UNCHANGED <<FileContext, disk, selected_template, selection,
                   placeholders, i, ctx, formatted, result, outputs, shown, warned,
                   raised, carried>>

RECURSIVE FirstOf(_, _, _)
\* next((p for p in placeholders if p["pattern"] == pattern), None): the
\* index of the first such placeholder, 0 for None
FirstOf(phs, pattern, k) ==
    IF k > Len(phs) THEN 0
    ELSE IF phs[k].pattern = pattern THEN k
    ELSE FirstOf(phs, pattern, k + 1)

\* limit_ph and limit_ph["args"]
HasLimit(phs) ==
    /\ FirstOf(phs, "limit_files", 1) > 0
    /\ phs[FirstOf(phs, "limit_files", 1)].args # <<>>

\* limit_ph["args"][0]
LimitArg(phs) == phs[FirstOf(phs, "limit_files", 1)].args[1]

\* line 780: selected_files[:limit]
limit_list(files, limit) == PySlice(files, 0, limit)

\* lines 777-781 when int() returns
LimitFiles ==
    /\ pc = "limit_files"
    /\ IF HasLimit(placeholders)
       THEN /\ int_parses(LimitArg(placeholders))
            /\ selected_files' =
                  limit_list(selected_files, int_value(LimitArg(placeholders)))
            /\ template' =
                  str_replace(template,
                      placeholders[FirstOf(placeholders, "limit_files", 1)].full, "")
       ELSE UNCHANGED <<selected_files, template>>
    /\ pc' = "totals"
    /\ UNCHANGED <<FileContext, disk, selected_template, selection,
                   placeholders, i, ctx, formatted, result, outputs, shown, warned,
                   raised, carried>>

\* line 779 when int() raises ValueError: the exception leaves merge_files
LimitFilesRaises ==
    /\ pc = "limit_files"
    /\ HasLimit(placeholders)
    /\ ~int_parses(LimitArg(placeholders))
    /\ raised' = TRUE
    /\ pc' = "idle"
    /\ UNCHANGED <<FileContext, disk, selected_template, selection, template,
                   selected_files, placeholders, i, ctx, formatted, result,
                   outputs, shown, warned, carried>>

RECURSIVE batch_totals_until_failure(_, _)
\* lines 787-800 with the try around the loop instead of inside it: the
\* first file that cannot be read ends the counting
batch_totals_until_failure(files, d) ==
    LET r    == read_text(d[Head(files)])
        rest == batch_totals_until_failure(Tail(files), d)
    IN  IF files = <<>> \/ r.raised THEN [lines |-> 0, words |-> 0, chars |-> 0]
        ELSE [lines |-> Len(str_splitlines(r.text)) + rest.lines,
              words |-> Len(str_split(r.text)) + rest.words,
              chars |-> Len(r.text) + rest.chars]

RECURSIVE batch_totals_counting_breaks(_, _)
\* lines 787-800 with the lines counted as the line breaks of the text, so
\* that a last line without a line break is not counted
batch_totals_counting_breaks(files, d) ==
    LET r           == read_text(d[Head(files)])
        content_tmp == IF r.raised THEN "" ELSE r.text
        rest        == batch_totals_counting_breaks(Tail(files), d)
    IN  IF files = <<>> THEN [lines |-> 0, words |-> 0, chars |-> 0]
        ELSE [lines |-> Cardinality({k \in 1..Len(content_tmp) :
                                        Ch(content_tmp, k) = "\n"}) + rest.lines,
              words |-> Len(str_split(content_tmp)) + rest.words,
              chars |-> Len(content_tmp) + rest.chars]

RECURSIVE batch_totals(_, _)
\* lines 787-800: the line, word and character counts of the files as read
\* from disk, a file that cannot be read counting as the empty text
batch_totals(files, d) ==
    LET r           == read_text(d[Head(files)])
        content_tmp == IF r.raised THEN "" ELSE r.text
        rest        == batch_totals(Tail(files), d)
    IN  IF files = <<>> THEN [lines |-> 0, words |-> 0, chars |-> 0]
        ELSE [lines |-> Len(str_splitlines(content_tmp)) + rest.lines,
              words |-> Len(str_split(content_tmp)) + rest.words,
              chars |-> Len(content_tmp) + rest.chars]

\* lines 785-808
ComputeTotals ==
    /\ pc = "totals"
    /\ FileContext' =
          [FileContext EXCEPT
              !.total_files = Len(selected_files),
              !.total_lines = batch_totals(selected_files, disk).lines,
              !.total_words = batch_totals(selected_files, disk).words,
              !.total_chars = batch_totals(selected_files, disk).chars]
    /\ result' = ""
    /\ i' = 0
    /\ pc' = "loop"
    /\ UNCHANGED <<disk, selected_template, selection, template, selected_files,
                   placeholders, ctx, formatted, outputs, shown, warned, raised,
                   carried>>

\* lines 810-811: the next file's FileContext is constructed
ConstructContext ==
    /\ pc = "loop"
    /\ i < Len(selected_files)
    /\ ctx' = NewContext(selected_files[i + 1], disk)
    /\ FileContext' = CountContext(FileContext, NewContext(selected_files[i + 1], disk))
    /\ pc' = "format"
    /\ UNCHANGED <<disk, selected_template, selection, template, selected_files,
                   placeholders, i, formatted, result, outputs, shown, warned,
                   raised, carried>>

\* lines 812-825 with the else branch of line 822 left out: every file but
\* the first gets the template of the last
boundary_template_two_way(text, k, count) ==
    IF k = 0
    THEN remove_marker(delete_marker_lines(text, "{show_after}"), "{show_before}")
    ELSE delete_marker_lines(remove_marker(text, "{show_after}"), "{show_before}")

\* lines 812-825 with the tests of lines 814 and 818 in the other order
boundary_template_last_first(text, k, count) ==
    IF k = count - 1
    THEN delete_marker_lines(remove_marker(text, "{show_after}"), "{show_before}")
    ELSE IF k = 0
    THEN remove_marker(delete_marker_lines(text, "{show_after}"), "{show_before}")
    ELSE delete_marker_lines(delete_marker_lines(text, "{show_before}"),
                             "{show_after}")

\* lines 812-825: the template of the file at index k of count files
boundary_template(text, k, count) ==
    IF k = 0
    THEN remove_marker(delete_marker_lines(text, "{show_after}"), "{show_before}")
    ELSE IF k = count - 1
    THEN delete_marker_lines(remove_marker(text, "{show_after}"), "{show_before}")
    ELSE delete_marker_lines(delete_marker_lines(text, "{show_before}"),
                             "{show_after}")

\* lines 812-827: the template of this file, and ctx.format on it
FormatFile ==
    /\ pc = "format"
    /\ formatted' =
          format([self |-> ctx, cls |-> FileContext, disk |-> disk],
                 boundary_template(template, i, Len(selected_files)))
    /\ pc' = "formatted"
    /\ UNCHANGED <<FileContext, disk, selected_template, selection, template,
                   selected_files, placeholders, i, ctx, result, outputs, shown,
                   warned, raised, carried>>

\* line 827 when format returned: result += ...
AppendResult ==
    /\ pc = "formatted"
    /\ ~formatted.raised
    /\ result' = result \o formatted.text
    /\ outputs' = Append(outputs, formatted.text)
    /\ i' = i + 1
    /\ pc' = "loop"
    /\ UNCHANGED <<FileContext, disk, selected_template, selection, template,
                   selected_files, placeholders, ctx, formatted, shown, warned,
                   raised, carried>>

\* line 827 when a lambda of format raised: the exception leaves merge_files
FormatRaises ==
    /\ pc = "formatted"
    /\ formatted.raised
    /\ raised' = TRUE
    /\ pc' = "idle"
    /\ UNCHANGED <<FileContext, disk, selected_template, selection, template,
                   selected_files, placeholders, i, ctx, formatted, result,
                   outputs, shown, warned, carried>>

\* line 829
ShowPreview ==
    /\ pc = "loop"
    /\ i = Len(selected_files)
    /\ shown' = [open |-> TRUE, text |-> result]
    /\ pc' = "idle"
    /\ UNCHANGED <<FileContext, disk, selected_template, selection, template,
                   selected_files, placeholders, i, ctx, formatted, result,
                   outputs, warned, raised, carried>>

Next ==
    \/ TouchDisk
    \/ MergeNoTemplate
    \/ MergeBegin
    \/ GetSelectedFiles
    \/ FindPlaceholders
    \/ SkipExt
    \/ AllowExt
    \/ LimitFiles
    \/ LimitFilesRaises
    \/ ComputeTotals
    \/ ConstructContext
    \/ FormatFile
    \/ AppendResult
    \/ FormatRaises
    \/ ShowPreview

Spec == Init /\ [][Next]_vars


(***************************************************************************)
(* The rendering of one file: merge_files from line 810 on, entered with   *)
(* one ticked file and a template of the store that holds no batch         *)
(* directive, so that lines 749-808 leave the template and the list as     *)
(* they are                                                                *)
(***************************************************************************)

\* self.templates: templates that exercise the directives of format()
render_templates ==
    [name \in {"content", "args_absent", "line_bare", "line_two", "head_bare",
               "lines_three", "chars_three", "zero", "tail_zero",
               "tailchars_zero", "lines_zero", "beyond", "head_beyond",
               "headchars_beyond", "lower_upper", "upper_lower", "title_first",
               "title_last", "blank_first", "blank_last", "unknown", "x_nl",
               "x_content", "stale", "stat"} |->
        CASE name = "content" -> "{content}"
          [] name = "args_absent" ->
                "{filename}<{lines:3}{line:x}{chars}{lines}{head:1x}{chars:2}>"
          [] name = "line_bare" -> "{filename}<{line}>"
          [] name = "line_two" -> "{filename}<{line:1;2}>"
          [] name = "head_bare" -> "{filename}<{head}>"
          [] name = "lines_three" -> "{filename}<{lines:1;2;3}>"
          [] name = "chars_three" -> "{filename}<{chars:1;2;3}>"
          [] name = "zero" -> "<{line:0}{head:0}{char:0}{headchars:0}>"
          [] name = "tail_zero" -> "<{tail:0}>"
          [] name = "tailchars_zero" -> "<{tailchars:0}>"
          [] name = "lines_zero" -> "<{lines:0;2}{chars:0;3}>"
          [] name = "beyond" -> "<{line:9}{char:99}{lines:9;10}{chars:98;99}>"
          [] name = "head_beyond" -> "<{head:9}{tail:9}>"
          [] name = "headchars_beyond" -> "<{headchars:99}{tailchars:99}>"
          [] name = "lower_upper" -> "{lower}{content}{upper}|"
          [] name = "upper_lower" -> "{upper}{lower}{content}|"
          [] name = "title_first" ->
                "{title}{remove_spaces}<{content}>{remove_linebreaks}"
          [] name = "title_last" ->
                "{remove_linebreaks}<{content}>{remove_spaces}{title}"
          [] name = "blank_first" ->
                "{remove_blank_lines}{remove_whitespaces}{content}{upper}|"
          [] name = "blank_last" ->
                "{upper}{upper}{content}{remove_whitespaces}|{remove_blank_lines}"
          [] name = "unknown" ->
                "{foo}{filename}{bar:1;2}{hash:sha256}{Name}|{skip_empty:a b}"
          [] name = "x_nl" -> "A{nl}B{x}\nC"
          [] name = "x_content" -> "A{content}{x}\nC{filename}\n{x:1}"
          [] name = "stale" ->
                "{upper}{line:1}|{headchars:5}|{content:numbered}|{lines_count}"
          [] name = "stat" -> "{filename}:{size}|{hash:sha1}|{modified:%Y}\n"]

\* a disk whose files hold text shaped like directive tokens
TokenDisk ==
    [p \in Paths |->
        CASE p = "/d/a.txt" -> TextFile("{counter}. {name}\n", "7")
          [] p = "/d/b.log" -> TextFile("a\n{line}\n", "8")
          [] p = "/d/c.TXT" -> TextFile("{upper}{x}\nn={lines_count}", "9")
          [] p = "/d/n"     -> TextFile("plain\n", "6")]

RenderDisks == {Disks[k] : k \in 1..Len(Disks)} \cup {TokenDisk}

\* merge_files at line 810 for one ticked file: the counters are reset, the
\* totals are those of the file, no FileContext has been built
RenderInit ==
    /\ disk \in RenderDisks
    /\ pc = "loop"
    /\ selected_template \in DOMAIN render_templates
    /\ template = render_templates[selected_template]
    /\ selection \in {<<p>> : p \in Paths}
    /\ selected_files = selection
    /\ placeholders = find_placeholders(template)
    /\ FileContext =
          [reset_counters(ClassInit) EXCEPT
              !.total_files = 1,
              !.total_lines = batch_totals(selected_files, disk).lines,
              !.total_words = batch_totals(selected_files, disk).words,
              !.total_chars = batch_totals(selected_files, disk).chars]
    /\ i = 0
    /\ ctx = NoContext
    /\ formatted = NotFormatted
    /\ result = ""
    /\ outputs = <<>>
    /\ shown = NotShown
    /\ warned = FALSE
    /\ raised = FALSE
    /\ carried = FALSE

RenderNext ==
    \/ ConstructContext
    \/ FormatFile
    \/ AppendResult
    \/ FormatRaises
    \/ ShowPreview

RenderSpec == RenderInit /\ [][RenderNext]_vars


(***************************************************************************)
(* Properties                                                              *)
(***************************************************************************)

\* sub occurs in s
Contains(s, sub) == \E k \in 1..Len(s) : StartsWithAt(s, k, sub)

\* the text of a file as a merge reads it: empty when the read fails
RawText(p) == IF disk[p].kind = "text" THEN disk[p].content ELSE ""

LinesOf(p) == Len(str_splitlines(RawText(p)))

WordsOf(p) == Len(str_split(RawText(p)))

CharsOf(p) == Len(RawText(p))

RECURSIVE SumLines(_, _)
\* the line counts of the first n files of the list, added up
SumLines(files, n) == IF n = 0 THEN 0 ELSE SumLines(files, n - 1) + LinesOf(files[n])

RECURSIVE SumWords(_, _)
SumWords(files, n) == IF n = 0 THEN 0 ELSE SumWords(files, n - 1) + WordsOf(files[n])

RECURSIVE SumChars(_, _)
SumChars(files, n) == IF n = 0 THEN 0 ELSE SumChars(files, n - 1) + CharsOf(files[n])

\* every file of the final list has been rendered and appended
AllRendered == pc = "loop" /\ i = Len(selected_files)

\* the scenario of the end-to-end example: a.txt and b.log ticked, with the
\* contents of the example, merged by the example's template
EndToEndScenario ==
    /\ AllRendered
    /\ selected_template = "e2e"
    /\ templates["e2e"] =
          "{allow_ext:txt}{x}\n{counter}. {filename}: {remove_blank_lines}{content}"
    /\ selection = <<"/d/a.txt", "/d/b.log">>
    /\ RawText("/d/a.txt") = "Hello\n\nWorld\n"
    /\ disk["/d/b.log"].kind = "text" => RawText("/d/b.log") = "skip me\n"

\* C1 as claimed: the end-to-end example excludes b.log and produces exactly
\* "1. a.txt: Hello\nWorld\n", the line break after the last line kept.
C1_EndToEndAsClaimed ==
    EndToEndScenario =>
        /\ selected_files = <<"/d/a.txt">>
        /\ result = "1. a.txt: Hello\nWorld\n"

\* C1 amended: the end-to-end example excludes b.log and produces exactly
\* "1. a.txt: Hello\nWorld": the blank line is removed, the counter is 1, and
\* the line break after the last line is gone, since remove_blank_lines joins
\* the lines that are left with line breaks between them.
C1_EndToEnd ==
    EndToEndScenario =>
        /\ selected_files = <<"/d/a.txt">>
        /\ result = "1. a.txt: Hello\nWorld"

C1_Witness ==
    /\ EndToEndScenario
    /\ disk["/d/b.log"].kind = "text"
    /\ carried
    /\ outputs = <<"1. a.txt: Hello\nWorld">>

\* a step that constructs a FileContext
Constructs == pc = "loop" /\ pc' = "format"

\* a step that enters merge_files
Enters == pc = "idle" /\ disk' = disk

\* C2 as claimed: files_counter is monotonic over the session: the reset at
\* the start of a merge leaves it unchanged, and it changes only by the 1
\* that each FileContext construction adds.
C2_OrdinalPersistsAsClaimed ==
    [][IF Constructs
       THEN FileContext'.files_counter = FileContext.files_counter + 1
       ELSE FileContext'.files_counter = FileContext.files_counter]_vars

\* a state in which the call of merge_files has run to line 829
Completed == pc = "idle" /\ shown.open

\* C2 amended: the reset at the start of a merge zeroes files_counter
\* together with current_* and total_*; within one merge files_counter never
\* decreases, each FileContext construction adding 1, so that when the merge
\* ends it equals the number of FileContext objects constructed in that merge.
C2_OrdinalPerMerge ==
    /\ [](Completed => FileContext.files_counter = Len(outputs))
    /\ [][IF Enters THEN FileContext' = ClassInit
          ELSE IF Constructs
          THEN FileContext'.files_counter = FileContext.files_counter + 1
          ELSE FileContext'.files_counter = FileContext.files_counter]_vars

C2_Witness ==
    /\ Completed
    /\ carried
    /\ Len(selected_files) = 3
    /\ FileContext.files_counter = 3

\* the statements of the file loop: lines 810-827
InLoop == pc \in {"loop", "format", "formatted"}

\* C3: from before the first FileContext of a merge is constructed until the
\* merge ends, total_files is the length of the final file list and
\* total_lines, total_words and total_chars are the sums of the line, word
\* and character counts of the raw contents of exactly those files, a file
\* that cannot be read counting 0; every file renders these same totals.
C3_BatchTotals ==
    InLoop =>
        /\ FileContext.total_files = Len(selected_files)
        /\ FileContext.total_lines = SumLines(selected_files, Len(selected_files))
        /\ FileContext.total_words = SumWords(selected_files, Len(selected_files))
        /\ FileContext.total_chars = SumChars(selected_files, Len(selected_files))

C3_Witness ==
    /\ pc = "loop"
    /\ i = 0
    /\ FileContext.current_files_count = 0
    /\ Len(selected_files) = 2
    /\ Len(selection) = 3
    /\ disk[selected_files[2]].kind # "text"
    /\ FileContext.total_files = 2
    /\ FileContext.total_lines = 3

\* C4: while the file at index i of the final list is rendered,
\* current_files_count is i + 1 and current_lines_count, current_words_count
\* and current_chars_count are the sums of the counts of the files at the
\* indices 0..i of this merge, not of the whole list and not of an earlier
\* merge.
C4_RunningCounters ==
    pc \in {"format", "formatted"} =>
        /\ FileContext.current_files_count = i + 1
        /\ FileContext.current_lines_count = SumLines(selected_files, i + 1)
        /\ FileContext.current_words_count = SumWords(selected_files, i + 1)
        /\ FileContext.current_chars_count = SumChars(selected_files, i + 1)
        /\ ctx.lines_count = LinesOf(selected_files[i + 1])
        /\ ctx.words_count = WordsOf(selected_files[i + 1])
        /\ ctx.chars_count = CharsOf(selected_files[i + 1])

C4_Witness ==
    /\ pc = "format"
    /\ carried
    /\ i = 1
    /\ Len(selected_files) = 3
    /\ FileContext.current_lines_count = 4
    /\ FileContext.current_lines_count < FileContext.total_lines
    /\ FileContext.current_chars_count > ctx.chars_count

\* the counters a first merge of the session has while it renders the file
\* at index k: they are a function of the final list and the disk alone
FirstMergeCounters(k) ==
    [files_counter       |-> k + 1,
     current_files_count |-> k + 1,
     current_lines_count |-> SumLines(selected_files, k + 1),
     current_words_count |-> SumWords(selected_files, k + 1),
     current_chars_count |-> SumChars(selected_files, k + 1),
     total_files         |-> Len(selected_files),
     total_lines         |-> SumLines(selected_files, Len(selected_files)),
     total_words         |-> SumWords(selected_files, Len(selected_files)),
     total_chars         |-> SumChars(selected_files, Len(selected_files))]

\* C5: a merge that follows another merge sees nothing of it: every
\* current_* counter is 0 until the merge constructs its first FileContext,
\* and each file is rendered with the counters, and to the text, that the
\* same merge has as the first merge of the session.
C5_MergesIndependent ==
    carried =>
        /\ (pc \in {"get_selected_files", "find_placeholders", "skip_ext",
                    "allow_ext", "limit_files", "totals"}
            \/ (pc = "loop" /\ i = 0)) =>
               /\ FileContext.current_files_count = 0
               /\ FileContext.current_lines_count = 0
               /\ FileContext.current_words_count = 0
               /\ FileContext.current_chars_count = 0
        /\ pc \in {"format", "formatted"} => FileContext = FirstMergeCounters(i)
        /\ pc = "formatted" =>
               formatted =
                   format([self |-> NewContext(selected_files[i + 1], disk),
                           cls  |-> FirstMergeCounters(i),
                           disk |-> disk],
                          boundary_template(template, i, Len(selected_files)))

C5_Witness ==
    /\ carried
    /\ pc = "formatted"
    /\ selected_template = "running"
    /\ i = 1
    /\ formatted.text = "2;2,4,4,21|"

\* the tokens of the template the user selected
Occurrences ==
    IF selected_template \in DOMAIN templates
    THEN find_placeholders(templates[selected_template]) ELSE <<>>

\* some occurrence of the directive lists the extension of path p: a
\* non-blank argument that, in lower case and with or without its leading
\* dot, is the extension of p in lower case
Lists(pattern, p) ==
    \E k \in 1..Len(Occurrences) :
        /\ Occurrences[k].pattern = pattern
        /\ \E a \in 1..Len(Occurrences[k].args) :
              LET arg == Occurrences[k].args[a]
                  ext == str_lower(splitext(p)[2])
              IN  /\ str_strip(arg) # ""
                  /\ ext \in {str_lower(arg), "." \o str_lower(arg)}

\* some occurrence of the directive lists an extension
ListsAny(pattern) ==
    \E k \in 1..Len(Occurrences) :
        /\ Occurrences[k].pattern = pattern
        /\ \E a \in 1..Len(Occurrences[k].args) :
              str_strip(Occurrences[k].args[a]) # ""

Survives(p) ==
    /\ ~Lists("skip_ext", p)
    /\ ListsAny("allow_ext") => Lists("allow_ext", p)

\* C6: after the skip_ext and allow_ext steps the file list is the selection
\* restricted, in its order, to the paths whose extension no skip_ext
\* occurrence lists and, when some allow_ext occurrence lists an extension,
\* some allow_ext occurrence lists; extensions are compared without regard
\* to case and a directive may write them with or without the leading dot.
C6_ExtensionFilter ==
    pc = "limit_files" => selected_files = SelectSeq(selection, Survives)

C6_Witness ==
    /\ pc = "limit_files"
    /\ selected_template = "both"
    /\ selection = <<"/d/a.txt", "/d/b.log", "/d/c.TXT">>
    /\ selected_files = <<"/d/b.log">>

\* the batch directives are behind: per-file rendering works on this template
AfterBatchStep == pc \in {"totals", "loop", "format", "formatted"}

\* C7 as claimed: the template that per-file rendering works on holds no
\* skip_ext, allow_ext or limit_files token, whatever the tokens' arguments.
C7_NoBatchTokenAsClaimed ==
    AfterBatchStep =>
        \A k \in 1..Len(find_placeholders(template)) :
            find_placeholders(template)[k].pattern
                \notin {"skip_ext", "allow_ext", "limit_files"}

\* the first limit_files token of the selected template has an argument
\* that is not a non-negative integer
LimitUnparsable ==
    /\ HasLimit(Occurrences)
    /\ ~str_isdigit(str_strip(LimitArg(Occurrences)))

\* C8 as claimed: with a limit_files argument that is not a non-negative
\* integer the merge does not raise, and the limit drops no file: the list
\* stays what the extension filters left.
C8_BadLimitIgnoredAsClaimed ==
    (LimitUnparsable /\ (AfterBatchStep \/ pc = "idle")) =>
        /\ ~raised
        /\ selected_files = SelectSeq(selection, Survives)

\* the pieces of a template: its lines, each with the line break that ends it
Pieces(text) ==
    LET parts == str_split_sep(text, "\n")
    IN  [k \in 1..Len(parts) |->
            IF k < Len(parts) THEN parts[k] \o "\n" ELSE parts[k]]

\* the piece carries the marker, in upper or lower case
Marked(piece, token) == Contains(str_lower(piece), token)

RECURSIVE Unmarked(_, _)
\* the piece without the marker tokens
Unmarked(piece, token) ==
    LET at == {k \in 1..Len(piece) : StartsWithAt(str_lower(piece), k, token)}
    IN  IF at = {} THEN piece
        ELSE SubSeq(piece, 1, Least(at) - 1)
             \o Unmarked(From(piece, Least(at) + Len(token)), token)

\* what position k of count makes of one piece: only the first position
\* shows a before-marked line and only the last an after-marked line, the
\* marker taken out; a line marked for another position is left out whole
AtPosition(piece, k, count) ==
    LET before == Marked(piece, "{show_before}")
        after  == Marked(piece, "{show_after}")
    IN  IF k = 0
        THEN (IF after THEN "" ELSE Unmarked(piece, "{show_before}"))
        ELSE IF k = count - 1
        THEN (IF before THEN "" ELSE Unmarked(piece, "{show_after}"))
        ELSE (IF before \/ after THEN "" ELSE piece)

RECURSIVE PositionTemplate(_, _, _, _)
\* the pieces from the n-th on, each as position k of count shows it
PositionTemplate(pieces, n, k, count) ==
    IF n > Len(pieces) THEN ""
    ELSE AtPosition(pieces[n], k, count) \o PositionTemplate(pieces, n + 1, k, count)

\* the file at index i is rendered from the lines its position shows
RenderedByPosition ==
    formatted =
        format([self |-> ctx, cls |-> FileContext, disk |-> disk],
               PositionTemplate(Pieces(template), 1, i, Len(selected_files)))

\* the text rendered for the file at index i holds no marker token
NoMarkerLeft ==
    /\ ~Contains(str_lower(formatted.text), "{show_before}")
    /\ ~Contains(str_lower(formatted.text), "{show_after}")

\* C9: in a merge of two or more files the output of the file at index 0 is
\* rendered from the before-marked lines without their marker and from no
\* after-marked line, the output of the last file from the after-marked
\* lines without their marker and from no before-marked line, and the output
\* of a file in between from no marked line; no output holds a marker token.
\* With the template "marks" the text of the before-marked line is "<B>" and
\* that of the after-marked line "<A>".
C9_MarkersByPosition ==
    (pc = "formatted" /\ Len(selected_files) >= 2) =>
        /\ RenderedByPosition
        /\ NoMarkerLeft
        /\ selected_template = "marks" =>
              /\ Contains(formatted.text, "<B>\n") <=> i = 0
              /\ Contains(formatted.text, "<") <=> i \in {0, Len(selected_files) - 1}
              /\ Contains(formatted.text, "<A>\n") <=> i = Len(selected_files) - 1

C9_Witness ==
    /\ Completed
    /\ selected_template = "marks"
    /\ outputs = <<"<B>\na.txt\n", "b.log\n", "c.TXT\n<A>\n">>

\* C10: when one file is left after filtering and limiting, it is rendered as
\* the first file and not as the last: from the before-marked lines without
\* their marker and from no after-marked line.  With the template "marks"
\* the output holds "<B>" and not "<A>".
C10_SingleFileIsFirst ==
    (pc = "formatted" /\ Len(selected_files) = 1) =>
        /\ formatted =
              format([self |-> ctx, cls |-> FileContext, disk |-> disk],
                     PositionTemplate(Pieces(template), 1, 0, 2))
        /\ selected_template = "marks" =>
              /\ Contains(formatted.text, "<B>\n")
              /\ ~Contains(formatted.text, "<A>")

C10_Witness ==
    /\ Completed
    /\ selected_template = "marks"
    /\ selection = <<"/d/c.TXT">>
    /\ outputs = <<"<B>\nc.TXT\n">>

\* the FileContext of the file being rendered, the class counters and the
\* disk, as format() sees them
RenderEnv == [self |-> ctx, cls |-> FileContext, disk |-> disk]

\* the template ctx.format is called with for the file at index i
FileTemplate == boundary_template(template, i, Len(selected_files))

\* C11 as claimed: the template "{content}" renders to exactly the decoded
\* text of the file, whatever the text holds, text shaped like a directive
\* token included.
C11_ContentRoundTripAsClaimed ==
    (pc = "formatted" /\ template = "{content}") =>
        /\ ~formatted.raised
        /\ formatted.text = RawText(selected_files[i + 1])

RECURSIVE EraseAll(_, _, _)
\* the text without the tokens phs[k], phs[k + 1], ...
EraseAll(text, phs, k) ==
    IF k > Len(phs) THEN text
    ELSE EraseAll(str_replace(text, phs[k].full, ""), phs, k + 1)

\* the directives that take one number and those that take two
OneNumber == {"line", "head", "tail", "char", "headchars", "tailchars"}

TwoNumbers == {"lines", "chars"}

\* a token of a numeric directive whose arguments are not the numbers the
\* directive takes: one missing, one that is not a number, or one too many
Malformed(ph) ==
    /\ ph.pattern \in OneNumber \cup TwoNumbers
    /\ \/ Len(ph.args) # (IF ph.pattern \in OneNumber THEN 1 ELSE 2)
       \/ \E a \in 1..Len(ph.args) : ~str_isdigit(ph.args[a])

\* C12 as claimed: a token of line, lines, head, tail, char, chars,
\* headchars or tailchars with a missing argument, an argument that is not a
\* number or too many arguments renders as the empty string: the render does
\* not raise and gives what the template without these tokens gives.
C12_MalformedArgumentsAsClaimed ==
    pc = "formatted" =>
        formatted =
            format(RenderEnv,
                   EraseAll(FileTemplate,
                            SelectSeq(find_placeholders(FileTemplate), Malformed),
                            1))

\* a token of a numeric directive, its arguments the numbers it takes, with
\* an argument that is zero or greater than the number of lines (of
\* characters, for the character directives) of the file being rendered
OutOfBounds(ph) ==
    LET size == IF ph.pattern \in {"line", "lines", "head", "tail"}
                THEN Len(ctx.lines) ELSE Len(ctx.content)
    IN  /\ ph.pattern \in OneNumber \cup TwoNumbers
        /\ ~Malformed(ph)
        /\ \E a \in 1..Len(ph.args) :
              DigitsValue(ph.args[a]) = 0 \/ DigitsValue(ph.args[a]) > size

\* C13 as claimed: a token of line, lines, head, tail, char, chars,
\* headchars or tailchars with a numeric argument that is zero or lies
\* beyond the bounds of the content renders as the empty string.
C13_OutOfBoundsAsClaimed ==
    pc = "formatted" =>
        formatted =
            format(RenderEnv,
                   EraseAll(FileTemplate,
                            SelectSeq(find_placeholders(FileTemplate), OutOfBounds),
                            1))

\* the content transforms in the order the specification fixes
Transforms ==
    <<"upper", "lower", "title", "remove_linebreaks", "remove_blank_lines",
      "remove_whitespaces", "remove_spaces">>

IsTransform(ph) ==
    /\ \E k \in 1..Len(Transforms) : ph.pattern = Transforms[k]
    /\ ph.args = <<>>

\* the template holds the token of the transform
Present(name, text) ==
    \E k \in 1..Len(find_placeholders(text)) :
        /\ find_placeholders(text)[k].pattern = name
        /\ find_placeholders(text)[k].args = <<>>

RECURSIVE Pipeline(_, _, _)
\* the transforms from the k-th on whose token the template holds, each run
\* once on the output of the one before
Pipeline(content, text, k) ==
    IF k > Len(Transforms) THEN content
    ELSE Pipeline(IF Present(Transforms[k], text)
                  THEN Modified(Transforms[k], content) ELSE content,
                  text, k + 1)

\* the template without its transform tokens
WithoutTransforms(text) ==
    EraseAll(text, SelectSeq(find_placeholders(text), IsTransform), 1)

\* templates of the store that hold the same transform tokens and the same
\* rest, the tokens in another order and at other places
Twin ==
    [name \in {"lower_upper", "upper_lower", "title_first", "title_last",
               "blank_first", "blank_last"} |->
        CASE name = "lower_upper" -> "upper_lower"
          [] name = "upper_lower" -> "lower_upper"
          [] name = "title_first" -> "title_last"
          [] name = "title_last"  -> "title_first"
          [] name = "blank_first" -> "blank_last"
          [] name = "blank_last"  -> "blank_first"]

\* C14: the rendered output is that of the template without its transform
\* tokens, rendered with the content that the transforms whose token the
\* template holds make of the file's content when run in the fixed order
\* upper, lower, title, remove_linebreaks, remove_blank_lines,
\* remove_whitespaces, remove_spaces, each on the output of the one before.
\* Where and in what order the tokens stand in the template does not enter,
\* and with no transform token the content stays what it was; a template
\* and its twin render the same.
C14_TransformOrder ==
    pc = "formatted" =>
        /\ formatted =
              format([RenderEnv EXCEPT
                         !.self.content = Pipeline(ctx.content, FileTemplate, 1)],
                     WithoutTransforms(FileTemplate))
        /\ selected_template \in DOMAIN Twin =>
              formatted = format(RenderEnv, render_templates[Twin[selected_template]])

C14_Witness ==
    /\ pc = "formatted"
    /\ selected_template = "lower_upper"
    /\ FileTemplate = "{lower}{content}{upper}|"
    /\ ctx.content = "x  y\nZ"
    /\ formatted.content = "x  y\nz"
    /\ formatted.text = "x  y\nz|"

\* the names the program gives a meaning: the directives of format(), hash
\* with its algorithm, the batch directives and the boundary markers
RecognizedNames ==
    {Passes[k][1] : k \in 1..Len(Passes)}
        \cup {"hash", "skip_ext", "allow_ext", "limit_files"}

IsUnknown(ph) ==
    /\ ph.pattern \notin RecognizedNames
    /\ str_lower(ph.pattern) \notin {"show_before", "show_after"}

\* the tokens of the file's template whose name is not recognized
UnknownTokens == SelectSeq(find_placeholders(FileTemplate), IsUnknown)

\* C15: a token whose name is not a recognized directive does not stop the
\* render (it raises with the token exactly when it raises without it) and
\* stands unchanged in the rendered output, the rest of which is what the
\* template without the token renders to.
C15_UnknownVerbatim ==
    pc = "formatted" =>
        /\ formatted.raised =
              format(RenderEnv, EraseAll(FileTemplate, UnknownTokens, 1)).raised
        /\ ~formatted.raised =>
              /\ \A k \in 1..Len(UnknownTokens) :
                    Contains(formatted.text, UnknownTokens[k].full)
              /\ EraseAll(formatted.text, UnknownTokens, 1) =
                    format(RenderEnv, EraseAll(FileTemplate, UnknownTokens, 1)).text

C15_Witness ==
    /\ pc = "formatted"
    /\ selected_template = "unknown"
    /\ Len(UnknownTokens) = 4
    /\ formatted.text = "{foo}a.txt{bar:1;2}{hash:sha256}{Name}|{skip_empty:a b}"

\* C16: constructing a FileContext never raises: wherever the loop has a
\* file left, the step taken is the construction, and merge_files goes on to
\* format; for a file that is missing or does not decode the content is
\* empty and the three counts are 0, files_counter and current_files_count
\* grow by exactly 1 and no other class counter changes.
C16_ConstructionNeverRaises ==
    [][(pc = "loop" /\ i < Len(selected_files)) =>
          /\ pc' = "format"
          /\ ~raised'
          /\ ctx'.path = selected_files[i + 1]
          /\ disk[selected_files[i + 1]].kind # "text" =>
                /\ ctx'.content = ""
                /\ ctx'.lines = <<>>
                /\ ctx'.lines_count = 0
                /\ ctx'.words_count = 0
                /\ ctx'.chars_count = 0
                /\ FileContext' =
                      [FileContext EXCEPT !.files_counter       = @ + 1,
                                          !.current_files_count = @ + 1]]_vars

C16_Witness ==
    /\ pc = "format"
    /\ i = 2
    /\ disk[selected_files[2]].kind = "missing"
    /\ disk[selected_files[3]].kind = "binary"
    /\ ctx.content = ""
    /\ FileContext.files_counter = 3
    /\ FileContext.current_files_count = 3
    /\ FileContext.current_lines_count = 3
    /\ FileContext.current_chars_count = 13

\* a token whose value is read from the file system when it is resolved
ReadsFileSystem(ph) ==
    \/ ph.pattern \in {"size", "created", "modified", "accessed"}
    \/ ph.pattern = "hash" /\ ph.args \in {<<"md5">>, <<"sha1">>}

\* C17 as claimed: when the file cannot be opened or stat'ed while a hash,
\* size, created, modified or accessed token is resolved, that field renders
\* empty and nothing else changes: the render completes with what the
\* template without these tokens gives, and the merge goes on.
C17_FieldFailureDegradesAsClaimed ==
    (pc = "formatted" /\ disk[ctx.path].kind = "missing") =>
        formatted =
            format(RenderEnv,
                   EraseAll(FileTemplate,
                            SelectSeq(find_placeholders(FileTemplate),
                                      ReadsFileSystem),
                            1))

\* C18 as claimed: the merge action with no template selected (the step
\* from idle to idle that leaves the disk alone), or with no file ticked
\* (the step on which get_selected_files returns the empty list), reports a
\* warning and ends the call there: the class counters keep the values they
\* had, no FileContext is constructed and no result is shown.
C18_GuardAsClaimed ==
    [][(\/ pc = "idle" /\ pc' = "idle" /\ disk' = disk
        \/ pc = "get_selected_files" /\ selection' = <<>>) =>
          /\ warned'
          /\ pc' = "idle"
          /\ ~shown'.open
          /\ FileContext' = FileContext]_vars

\* the piece holds a token {x} or {x:...}
HasX(piece) ==
    \E k \in 1..Len(piece) :
        \/ StartsWithAt(piece, k, "{x}")
        \/ StartsWithAt(piece, k, "{x:") /\ FindChar(piece, "}", k) > 0

RECURSIVE WithoutXLines(_, _)
\* the pieces from the n-th on that hold no {x} token
WithoutXLines(pieces, n) ==
    IF n > Len(pieces) THEN ""
    ELSE (IF HasX(pieces[n]) THEN "" ELSE pieces[n])
         \o WithoutXLines(pieces, n + 1)

\* C19 as claimed: nothing of a template line that holds an {x} token gets
\* into the output, neither its text nor the values of the other directives
\* on it ({nl} and {content} included) nor its line break: the output is
\* what the template without these lines renders to.
C19_WholeLineRemovalAsClaimed ==
    pc = "formatted" =>
        formatted = format(RenderEnv, WithoutXLines(Pieces(FileTemplate), 1))

\* the passes of format() that run before the {x} pass
BeforeX == {k \in 1..Len(Passes) : \A j \in 1..k : Passes[j][1] # "x"}

RECURSIVE ResolveEarly(_, _)
\* the working text when the {x} pass starts: the file-information fields,
\* {_} and {nl} have been substituted
ResolveEarly(st, k) ==
    IF k \notin BeforeX \/ st.raised THEN st
    ELSE ResolveEarly(ApplyPass(Passes[k], RenderEnv, st), k + 1)

\* the template of the file on entry to the {x} pass
AtXPass ==
    ResolveEarly([raised  |-> FALSE,
                  text    |-> FileTemplate,
                  content |-> RenderEnv.self.content], 1)

\* C19 amended: whole-line removal acts on the lines of the working text as
\* they stand when the {x} pass starts, that is after the file-information
\* fields, {_} and {nl} have got their values: nothing of such a line that
\* holds an {x} token gets into the output, neither its text nor the values
\* of the later directives on it ({content} included) nor its line break,
\* and the other lines render as if it were absent.  A {nl} before the {x}
\* on a template line has split that line by then, and what stands before
\* the inserted line break is kept.
C19_WholeLineRemoval ==
    (pc = "formatted" /\ ~AtXPass.raised) =>
        formatted = format(RenderEnv, WithoutXLines(Pieces(AtXPass.text), 1))

\* a template with {nl} before {x} on one line has been rendered: the text
\* before the {nl} is kept with the line break, the rest of the line is gone
C19_Witness ==
    /\ pc = "formatted"
    /\ FileTemplate = "A{nl}B{x}\nC"
    /\ AtXPass.text = "A\nB{x}\nC"
    /\ formatted.text = "A\nC"

\* C20 as claimed: when a render has returned, the lines of the FileContext
\* are its content split on line breaks, the content being the one the
\* content-transform directives of the template have left, so that the
\* line-based and the content-based directives emit from the same text.
C20_LinesFollowContentAsClaimed ==
    (pc = "formatted" /\ ~formatted.raised) =>
        ctx.lines = str_splitlines(formatted.content)

\* C21: the disk does not change while a merge runs (it changes between
\* merges only); throughout the file loop each running counter is at most
\* its batch total, and when the merge has run to its end the four running
\* counters equal the four batch totals, whether or not the template holds
\* content-transform directives that rewrite the content during the render.
C21_RunningWithinTotals ==
    /\ InLoop =>
          /\ FileContext.current_files_count <= FileContext.total_files
          /\ FileContext.current_lines_count <= FileContext.total_lines
          /\ FileContext.current_words_count <= FileContext.total_words
          /\ FileContext.current_chars_count <= FileContext.total_chars
    /\ Completed =>
          /\ FileContext.current_files_count = FileContext.total_files
          /\ FileContext.current_lines_count = FileContext.total_lines
          /\ FileContext.current_words_count = FileContext.total_words
          /\ FileContext.current_chars_count = FileContext.total_chars

\* a merge of two files has ended whose template holds a content-transform
\* directive: the render of the first file has rewritten its three lines to
\* two, and the counters hold the five lines of the two files as read
C21_Witness ==
    /\ Completed
    /\ selected_files = <<"/d/a.txt", "/d/c.TXT">>
    /\ Present("remove_blank_lines", template)
    /\ outputs[1] = "1. a.txt: Hello\nWorld"
    /\ ctx.content = "x  y\nZ"
    /\ FileContext.current_lines_count = 5
    /\ FileContext.total_lines = 5

====
